---- MODULE Spec2Model ----
(***************************************************************************)
(* Model of src/likes.py: the follower fetch loop (get_followers), the     *)
(* notification fetch-and-aggregate loop (load_data), the statistics of    *)
(* main and the follower partition analysis (analyze_likes).               *)
(*                                                                         *)
(* One action is one loop iteration or one straight-line stage of main.    *)
(* An unhandled Python exception ends the run: pc = "crashed" and error    *)
(* holds the exception's name.                                             *)
(***************************************************************************)
EXTENDS Integers, Sequences, FiniteSets, TLC

\* ------------------------------------------------------------ bounds ----
\* The page size of the notification endpoint.  The source sets LIMIT = 500
\* (likes.py:9); the model scales it down so that full pages, short pages
\* and exact multiples all occur within small feeds.
LIMIT == 2
\* The page size of the followers endpoint (limit = 500 at likes.py:86),
\* scaled the same way.
limit == 2
\* Longest notification feed the server holds under Spec (all record kinds).
MaxFeed == 3
\* Longest follower list the server holds under Spec.
MaxFollowers == 2
\* Longest notification feed and follower list under SpecFetch.
MaxFetchFeed == 5
MaxFetchFollowers == 4
\* Longest notification feed under SpecLong.
MaxLongFeed == 6

\* ------------------------------------------------------ notifications ---
\* n.get("resource_media") of a record without the key is None.
NoKey == "<absent>"
MediaUrl == "media.png"

Notification(action, name, resource_uuid, created_at, resource_media) ==
    [action |-> action, name |-> name, resource_uuid |-> resource_uuid,
     created_at |-> created_at, resource_media |-> resource_media]

\* Python truthiness of n.get("resource_media"): None and "" are falsy.
Truthy(v) == v \notin {NoKey, ""}

LikedA    == Notification("liked", "A", "r1", "t1", MediaUrl)
LikedA2   == Notification("liked", "A", "r1", "t2", MediaUrl)
LikedB    == Notification("liked", "B", "r2", "t1", MediaUrl)
LikedNoMedia    == Notification("liked", "A", "r1", "t1", NoKey)
LikedEmptyMedia == Notification("liked", "B", "r2", "t1", "")
Commented == Notification("commented", "A", "r1", "t3", NoKey)
Collected == Notification("collected", "B", "r2", "t4", NoKey)
Followed  == Notification("followed", "B", "r1", "t5", NoKey)

\* The records a feed is drawn from under Spec.
NotificationPool ==
    {LikedA, LikedA2, LikedB, LikedNoMedia, LikedEmptyMedia,
     Commented, Collected, Followed}

\* The records a feed is drawn from under SpecFetch and under SpecLong.
FetchPool == {LikedA, Commented, Collected}
LongPool == {LikedA, LikedB, Commented, Collected}

\* Follower names the followers endpoint may list: "A" also likes, "C" never
\* appears in the feed.
FollowerPool == {"A", "C"}
\* Under SpecFetch the followers endpoint holds the first n names of this list.
FollowerRoster == <<"A", "C", "D", "E", "F", "G", "H", "I">>

SeqsUpTo(S, n) == UNION {[1..k -> S] : k \in 0..n}

\* --------------------------------------------------------- helpers ------
Min(a, b) == IF a < b THEN a ELSE b

\* seq[offset : offset + size] of the list the server holds.
PageOf(seq, off, size) == SubSeq(seq, off + 1, Min(off + size, Len(seq)))

\* Counter c after c[k] += 1 (a missing key counts from 0).
Inc(c, k) == IF k \in DOMAIN c THEN [c EXCEPT ![k] = @ + 1] ELSE c @@ (k :> 1)

EmptyCounter == [k \in {} |-> 0]

RECURSIVE SumOver(_, _)
SumOver(f, S) ==
    IF S = {} THEN 0
    ELSE LET k == CHOOSE k \in S : TRUE IN f[k] + SumOver(f, S \ {k})

\* sum(c.values())
SumValues(c) == SumOver(c, DOMAIN c)

VARIABLES
    pc,                  \* the statement the run is at
    error,               \* "none", or the name of the unhandled exception
    feed,                \* server: the notification records it holds
    follower_feed,       \* server: the follower names it holds
    malformed,           \* server: a notification response lacked "notifications"
    requests,            \* offsets of the notification requests issued so far
    follower_requests,   \* offsets of the follower requests issued so far
    followers,           \* get_followers: followers
    followers_offset,    \* get_followers: offset
    offset,              \* load_data: offset
    user_likes,          \* load_data: defaultdict(Counter)
    user_comments,       \* load_data: Counter
    resource_comments,   \* load_data: Counter
    resource_collected,  \* load_data: Counter
    follower_like_counts,\* load_data: Counter
    user_is_follower,    \* load_data: defaultdict(bool)
    notifications,       \* load_data: every record fetched, in order
    total_likes,         \* main: total_likes
    likes_df,            \* main: likes_df, rows sorted by Likes descending
    percentiles_values_likes,    \* main: np.percentile of the like totals, x10
    percentiles_values_comments, \* main: np.percentile of the comment totals, x10
    top_users_stats,     \* main: what display_top_users_stats wrote, per call
    followers_no_likes,  \* analyze_likes: followers_no_likes, as a set
    follower_like_counts_df,     \* analyze_likes: follower -> likes, filtered
    follower_likes_summary,      \* analyze_likes: likes -> count, percentage
    non_follower_likes_summary,  \* analyze_likes: likes -> count, percentage
    shown                \* the reports written to the page so far

vars == <<pc, error, feed, follower_feed, malformed, requests,
          follower_requests, followers, followers_offset, offset,
          user_likes, user_comments, resource_comments, resource_collected,
          follower_like_counts, user_is_follower, notifications,
          total_likes, likes_df, percentiles_values_likes,
          percentiles_values_comments, top_users_stats, followers_no_likes,
          follower_like_counts_df, follower_likes_summary,
          non_follower_likes_summary, shown>>

server == <<feed, follower_feed>>
aggregates == <<user_likes, user_comments, resource_comments,
                resource_collected, follower_like_counts>>
fetch_state == <<malformed, requests, follower_requests, followers,
                 followers_offset, offset, notifications>>
main_state == <<total_likes, likes_df, percentiles_values_likes,
                percentiles_values_comments, top_users_stats>>
analysis_state == <<followers_no_likes, follower_like_counts_df,
                    follower_likes_summary, non_follower_likes_summary>>

\* ------------------------------------------------------ aggregation -----
\* Faulty variants of process_liked_notification: the count is set to 1
\* instead of incremented; the actor's counter is replaced instead of updated.
process_liked_set_one(n, ul) ==
    LET name == n.name
        key  == <<n.resource_uuid, n.created_at>>
    IN IF name \in DOMAIN ul
       THEN [ul EXCEPT ![name] =
                IF key \in DOMAIN @ THEN [@ EXCEPT ![key] = 1] ELSE @ @@ (key :> 1)]
       ELSE ul @@ (name :> (key :> 1))

process_liked_overwrite(n, ul) ==
    LET name == n.name
        key  == <<n.resource_uuid, n.created_at>>
    IN IF name \in DOMAIN ul
       THEN [ul EXCEPT ![name] = (key :> 1)]
       ELSE ul @@ (name :> (key :> 1))

\* process_liked_notification: user_likes[name][(resource_uuid, created_at)] += 1
process_liked_notification(n, ul) ==
    LET name == n.name
        key  == <<n.resource_uuid, n.created_at>>
    IN IF name \in DOMAIN ul
       THEN [ul EXCEPT ![name] = Inc(@, key)]
       ELSE ul @@ (name :> Inc(EmptyCounter, key))

\* process_commented_notification, the two counters apart.
process_commented_user(n, uc) == Inc(uc, n.name)
process_commented_resource(n, rc) == Inc(rc, n.resource_uuid)

\* process_collected_notification
process_collected_notification(n, rc) == Inc(rc, n.resource_uuid)

\* Faulty variant of IsCountedLike: the media flag is not looked at.
IsLikedAction(n) == n.action = "liked"

\* The three list comprehensions of one loop iteration.
IsCountedLike(n) == n.action = "liked" /\ Truthy(n.resource_media)
liked_notifications(page) == SelectSeq(page, IsCountedLike)
commented_notifications(page) ==
    SelectSeq(page, LAMBDA n : n.action = "commented")
collected_notifications(page) ==
    SelectSeq(page, LAMBDA n : n.action = "collected")

RECURSIVE FoldLikes(_, _)
FoldLikes(ns, ul) ==
    IF ns = <<>> THEN ul
    ELSE FoldLikes(Tail(ns), process_liked_notification(Head(ns), ul))

RECURSIVE FoldFollowerLikeCounts(_, _)
FoldFollowerLikeCounts(ns, flc) ==
    IF ns = <<>> THEN flc
    ELSE FoldFollowerLikeCounts(Tail(ns), Inc(flc, Head(ns).name))

RECURSIVE FoldUserComments(_, _)
FoldUserComments(ns, uc) ==
    IF ns = <<>> THEN uc
    ELSE FoldUserComments(Tail(ns), process_commented_user(Head(ns), uc))

RECURSIVE FoldResourceComments(_, _)
FoldResourceComments(ns, rc) ==
    IF ns = <<>> THEN rc
    ELSE FoldResourceComments(Tail(ns), process_commented_resource(Head(ns), rc))

RECURSIVE FoldCollected(_, _)
FoldCollected(ns, rc) ==
    IF ns = <<>> THEN rc
    ELSE FoldCollected(Tail(ns), process_collected_notification(Head(ns), rc))

\* ------------------------------------------------------------ init ------
InitWith(feeds, followerFeeds) ==
    /\ pc = "get_followers"
    /\ error = "none"
    /\ feed \in feeds
    /\ follower_feed \in followerFeeds
    /\ malformed = FALSE
    /\ requests = <<>>
    /\ follower_requests = <<>>
    /\ followers = <<>>
    /\ followers_offset = 0
    /\ offset = 0
    /\ user_likes = EmptyCounter
    /\ user_comments = EmptyCounter
    /\ resource_comments = EmptyCounter
    /\ resource_collected = EmptyCounter
    /\ follower_like_counts = EmptyCounter
    /\ user_is_follower = EmptyCounter
    /\ notifications = <<>>
    /\ total_likes = 0
    /\ likes_df = <<>>
    /\ percentiles_values_likes = <<>>
    /\ percentiles_values_comments = <<>>
    /\ top_users_stats = <<>>
    /\ followers_no_likes = {}
    /\ follower_like_counts_df = EmptyCounter
    /\ follower_likes_summary = EmptyCounter
    /\ non_follower_likes_summary = EmptyCounter
    /\ shown = {}

Init == InitWith(SeqsUpTo(NotificationPool, MaxFeed),
                 SeqsUpTo(FollowerPool, MaxFollowers))

\* ------------------------------------------------------ get_followers ---
\* if len(follower_data["users"]) < limit: break
LastFollowersPage(users) == Len(users) < limit

\* One iteration of the while loop of get_followers.
GetFollowersPage ==
    /\ pc = "get_followers"
    /\ LET users == PageOf(follower_feed, followers_offset, limit)
       IN /\ follower_requests' = Append(follower_requests, followers_offset)
          /\ followers' = followers \o users
          /\ IF LastFollowersPage(users)
             THEN /\ pc' = "load_data"
                  /\ UNCHANGED followers_offset
             ELSE /\ pc' = "get_followers"
                  /\ followers_offset' = followers_offset + limit
    /\ UNCHANGED <<error, server, malformed, requests, offset, aggregates,
                   user_is_follower, notifications, main_state,
                   analysis_state, shown>>

\* ---------------------------------------------------------- load_data ---
\* The prologue of load_data: fresh aggregates, user_is_follower[f] = True.
LoadDataBegin ==
    /\ pc = "load_data"
    /\ offset' = 0
    /\ user_is_follower' =
           [f \in {followers[i] : i \in DOMAIN followers} |-> TRUE]
    /\ pc' = "load_loop"
    /\ UNCHANGED <<error, server, malformed, requests, follower_requests,
                   followers, followers_offset, aggregates, notifications,
                   main_state, analysis_state, shown>>

\* The aggregates after the three for loops of one iteration over `page`.
IngestPage(page, a) ==
    [user_likes |-> FoldLikes(liked_notifications(page), a.user_likes),
     follower_like_counts |->
         FoldFollowerLikeCounts(liked_notifications(page), a.follower_like_counts),
     user_comments |->
         FoldUserComments(commented_notifications(page), a.user_comments),
     resource_comments |->
         FoldResourceComments(commented_notifications(page), a.resource_comments),
     resource_collected |->
         FoldCollected(collected_notifications(page), a.resource_collected)]

\* Faulty variant of LastPage: a full page ends the loop too.
LastPageOffByOne(page) == Len(page) <= LIMIT
\* if len(data.get("notifications", [])) < LIMIT: break
LastPage(page) == Len(page) < LIMIT

\* The aggregates load_data starts from.
FreshAggregates ==
    [user_likes |-> EmptyCounter, follower_like_counts |-> EmptyCounter,
     user_comments |-> EmptyCounter, resource_comments |-> EmptyCounter,
     resource_collected |-> EmptyCounter]

CurrentAggregates ==
    [user_likes |-> user_likes, follower_like_counts |-> follower_like_counts,
     user_comments |-> user_comments, resource_comments |-> resource_comments,
     resource_collected |-> resource_collected]

\* One iteration of the while loop of load_data on the response `page`:
\* data.get("notifications", []) of a response without the key is [].
LoadIteration(page) ==
    /\ requests' = Append(requests, offset)
    /\ notifications' = notifications \o page
    /\ LET a == IngestPage(page, CurrentAggregates)
       IN /\ user_likes' = a.user_likes
          /\ follower_like_counts' = a.follower_like_counts
          /\ user_comments' = a.user_comments
          /\ resource_comments' = a.resource_comments
          /\ resource_collected' = a.resource_collected
    /\ IF LastPage(page)
       THEN /\ pc' = "main_totals"
            /\ UNCHANGED offset
       ELSE /\ pc' = "load_loop"
            /\ offset' = offset + LIMIT

\* The server answers with the page at offset.
LoadPage ==
    /\ pc = "load_loop"
    /\ LoadIteration(PageOf(feed, offset, LIMIT))
    /\ UNCHANGED <<error, server, malformed, follower_requests, followers,
                   followers_offset, user_is_follower, main_state,
                   analysis_state, shown>>

\* The server answers with a payload that has no "notifications" key.
LoadMalformedPage ==
    /\ pc = "load_loop"
    /\ malformed' = TRUE
    /\ LoadIteration(<<>>)
    /\ UNCHANGED <<error, server, follower_requests, followers,
                   followers_offset, user_is_follower, main_state,
                   analysis_state, shown>>

\* --------------------------------------------------------------- main ---
Range(f) == {f[k] : k \in DOMAIN f}

\* sum(len(posts) for posts in user_likes.values())
TotalLikes(ul) == SumOver([u \in DOMAIN ul |-> Cardinality(DOMAIN ul[u])], DOMAIN ul)

\* [sum(counter.values()) for counter in user_likes.values()], by user
LikesColumn(ul) == [u \in DOMAIN ul |-> SumValues(ul[u])]

\* A defaultdict(bool) read: a missing key is created with False.
IsFollowerRead(uif, users) ==
    [u \in DOMAIN uif \cup users |-> IF u \in DOMAIN uif THEN uif[u] ELSE FALSE]

\* DataFrame.sort_values(by=column, ascending=False) of the rows {User, value}
\* of `column`.  The order among equal values is the sort's own choice.
RECURSIVE SortValuesDesc(_, _)
SortValuesDesc(column, users) ==
    IF users = {} THEN <<>>
    ELSE LET u == CHOOSE u \in users : \A v \in users : column[v] <= column[u]
         IN <<[User |-> u, Likes |-> column[u]]>>
            \o SortValuesDesc(column, users \ {u})

RECURSIVE SumLikes(_)
SumLikes(rows) == IF rows = <<>> THEN 0 ELSE Head(rows).Likes + SumLikes(Tail(rows))

\* The values of `column`, ascending (np.percentile sorts its input).
RECURSIVE SortedValues(_, _)
SortedValues(column, users) ==
    IF users = {} THEN <<>>
    ELSE LET u == CHOOSE u \in users : \A v \in users : column[u] <= column[v]
         IN <<column[u]>> \o SortedValues(column, users \ {u})

\* np.percentile(values, [10, 20, ..., 100]) by linear interpolation between
\* the order statistics at position p/100 * (n - 1); `asc` is the values
\* ascending, the result is each value times 10 (an integer).
percentiles == <<10, 20, 30, 40, 50, 60, 70, 80, 90, 100>>
Percentile(asc, p) ==
    LET h  == (p \div 10) * (Len(asc) - 1)
        lo == h \div 10
        r  == h % 10
    IN IF r = 0 THEN 10 * asc[lo + 1]
       ELSE 10 * asc[lo + 1] + r * (asc[lo + 2] - asc[lo + 1])
NpPercentile(column) ==
    LET asc == SortedValues(column, DOMAIN column)
    IN [i \in DOMAIN percentiles |-> Percentile(asc, percentiles[i])]

\* display_top_users_stats(likes_df, percentile, total_likes), the percentile
\* given in hundredths: head(int(percentile * len(likes_df))) of the rows by
\* Likes descending, and the sum of its Likes beside the total it is divided by.
display_top_users_stats(df, pct, total) ==
    LET top_users == SubSeq(df, 1, (pct * Len(df)) \div 100)
    IN [percentile |-> pct, users |-> Len(top_users),
        likes |-> SumLikes(top_users), total |-> total]

\* The fractions main calls display_top_users_stats with, in hundredths.
TopFractions == <<5, 10, 25, 50>>

Crash(exception) ==
    /\ pc' = "crashed"
    /\ error' = exception

\* main, lines 273-305: the totals and the two per-user tables.
MainTotals ==
    /\ pc = "main_totals"
    /\ total_likes' = TotalLikes(user_likes)
    /\ likes_df' = SortValuesDesc(LikesColumn(user_likes), DOMAIN user_likes)
    /\ user_is_follower' =
           IsFollowerRead(user_is_follower, DOMAIN user_likes \cup DOMAIN user_comments)
    /\ shown' = shown \cup {"totals", "likes_by_user", "comments_by_user"}
    /\ pc' = "main_tables"
    /\ UNCHANGED <<error, server, fetch_state, aggregates,
                   percentiles_values_likes, percentiles_values_comments,
                   top_users_stats, analysis_state>>

\* main, lines 307-352: the two per-resource tables.  DataFrame.from_dict of
\* an empty Counter has no column, reset_index() gives it one, and naming two
\* columns raises ValueError.
MainTables ==
    /\ pc = "main_tables"
    /\ IF DOMAIN resource_comments = {}
       THEN Crash("ValueError") /\ UNCHANGED shown
       ELSE IF DOMAIN resource_collected = {}
       THEN /\ Crash("ValueError")
            /\ shown' = shown \cup {"comments_by_resource"}
       ELSE /\ pc' = "main_stats"
            /\ shown' = shown \cup {"comments_by_resource", "collected_by_resource",
                                    "most_collected", "interaction_statistics"}
            /\ UNCHANGED error
    /\ UNCHANGED <<server, fetch_state, aggregates, user_is_follower,
                   main_state, analysis_state>>

\* main, lines 354-380: the average, the percentiles and the top-user shares.
MainStats ==
    /\ pc = "main_stats"
    /\ IF DOMAIN user_likes = {}
       THEN /\ Crash("ZeroDivisionError")
            /\ UNCHANGED <<percentiles_values_likes, percentiles_values_comments,
                           top_users_stats, shown>>
       ELSE /\ percentiles_values_likes' =
                   NpPercentile(LikesColumn(user_likes))
            /\ percentiles_values_comments' =
                   NpPercentile(user_comments)
            /\ top_users_stats' =
                   [i \in DOMAIN TopFractions |->
                       display_top_users_stats(likes_df, TopFractions[i], total_likes)]
            /\ shown' = shown \cup {"average_likes", "top_users",
                                    "likes_percentiles", "comments_percentiles"}
            /\ pc' = "analyze_likes"
            /\ UNCHANGED error
    /\ UNCHANGED <<server, fetch_state, aggregates, user_is_follower,
                   total_likes, likes_df, analysis_state>>

\* ------------------------------------------------------ analyze_likes ---
\* generate_likes_dataframe: one row per (user, (resource_uuid, created_at)),
\* as <<actor_uuid, resource_uuid, created_at, count>>.
generate_likes_dataframe(ul) ==
    UNION {{<<u, k[1], k[2], ul[u][k]>> : k \in DOMAIN ul[u]} : u \in DOMAIN ul}

\* set(likes_df["actor_uuid"].unique())
UsersWithLikes(rows) == {row[1] : row \in rows}

\* follower_names - users_with_likes
FollowersNoLikes(follower_names, users_with_likes) ==
    follower_names \ users_with_likes

\* Faulty variant of FollowerLikeCountsDf: likes > 1.
FollowerLikeCountsDfOffByOne(flc, follower_names) ==
    [f \in {g \in DOMAIN flc \cap follower_names : flc[g] > 1} |-> flc[f]]

\* follower_like_counts restricted to the followers, then to likes > 0.
FollowerLikeCountsDf(flc, follower_names) ==
    [f \in {g \in DOMAIN flc \cap follower_names : flc[g] > 0} |-> flc[f]]

\* value_counts of actor_uuid over the rows of non-followers.
NonFollowerLikeCountsDf(rows, follower_names) ==
    [a \in UsersWithLikes(rows) \ follower_names |->
        Cardinality({row \in rows : row[1] = a})]

\* The divisor of the non-follower percentages.
NonFollowerDenominator(users_with_likes, total_followers) ==
    Cardinality(users_with_likes) - total_followers

\* groupby("likes")[...].count() with the percentage column count / denom * 100,
\* kept as the fraction <<count * 100, denom>> (pandas divides by a zero
\* denominator without raising: the percentage is then inf).
LikesSummary(counts, denom) ==
    [l \in Range(counts) |->
        LET count == Cardinality({k \in DOMAIN counts : counts[k] = l})
        IN [count |-> count, percentage |-> <<count * 100, denom>>]]

\* main line 398 and analyze_likes.
AnalyzeLikes ==
    /\ pc = "analyze_likes"
    /\ LET rows             == generate_likes_dataframe(user_likes)
           follower_names   == {followers[i] : i \in DOMAIN followers}
           users_with_likes == UsersWithLikes(rows)
           total_followers  == Cardinality(follower_names)
           likes_by_followers     == Cardinality({row \in rows : row[1] \in follower_names})
           likes_by_non_followers == Cardinality({row \in rows : row[1] \notin follower_names})
           no_likes == FollowersNoLikes(follower_names, users_with_likes)
           flc_df   == FollowerLikeCountsDf(follower_like_counts, follower_names)
       IN IF total_followers = 0
          THEN \* line 109: users_with_no_likes_count / total_followers
               /\ Crash("ZeroDivisionError")
               /\ followers_no_likes' = no_likes
               /\ shown' = shown \cup {"likes_table", "comments_table",
                                       "followers_no_likes"}
               /\ UNCHANGED <<follower_like_counts_df, follower_likes_summary,
                              non_follower_likes_summary>>
          ELSE IF likes_by_followers + likes_by_non_followers = 0
          THEN \* line 119: likes_by_followers / total_likes
               /\ Crash("ZeroDivisionError")
               /\ followers_no_likes' = no_likes
               /\ shown' = shown \cup {"likes_table", "comments_table",
                                       "followers_no_likes", "followers_no_likes_share"}
               /\ UNCHANGED <<follower_like_counts_df, follower_likes_summary,
                              non_follower_likes_summary>>
          ELSE /\ followers_no_likes' = no_likes
               /\ follower_like_counts_df' = flc_df
               /\ follower_likes_summary' = LikesSummary(flc_df, total_followers)
               /\ non_follower_likes_summary' =
                      LikesSummary(NonFollowerLikeCountsDf(rows, follower_names),
                                   NonFollowerDenominator(users_with_likes, total_followers))
               /\ shown' = shown \cup {"likes_table", "comments_table",
                                       "followers_no_likes", "followers_no_likes_share",
                                       "likes_by_membership", "follower_distribution",
                                       "non_follower_distribution"}
               /\ pc' = "done"
               /\ UNCHANGED error
    /\ UNCHANGED <<server, fetch_state, aggregates, user_is_follower, main_state>>

Next ==
    \/ GetFollowersPage
    \/ LoadDataBegin
    \/ LoadPage
    \/ LoadMalformedPage
    \/ MainTotals
    \/ MainTables
    \/ MainStats
    \/ AnalyzeLikes

Spec == Init /\ [][Next]_vars

\* Ingestion alone: every feed of Spec, no follower.
InitIngest == InitWith(SeqsUpTo(NotificationPool, MaxFeed), {<<>>})
SpecIngest == InitIngest /\ [][Next]_vars

\* Pagination: longer feeds and follower lists over fewer kinds of record.
InitFetch ==
    InitWith(SeqsUpTo(FetchPool, MaxFetchFeed),
             {SubSeq(FollowerRoster, 1, n) : n \in 0..MaxFetchFollowers})
SpecFetch == InitFetch /\ [][Next]_vars

\* Statistics: feeds long enough for repeated likes by two actors beside a
\* comment and a collection.
InitLong == InitWith(SeqsUpTo(LongPool, MaxLongFeed), {<<>>, <<"A">>})
SpecLong == InitLong /\ [][Next]_vars
\* ================================================================ claims ==
\* The run is past the while loop of load_data.
LoadFinished == pc \notin {"get_followers", "load_data", "load_loop"}
FollowerNames == {followers[i] : i \in DOMAIN followers}

\* load_data as a function of the feed: the while loop from `off` on.
RECURSIVE LoadLoop(_, _, _)
LoadLoop(f, off, a) ==
    LET page == PageOf(f, off, LIMIT)
        b    == IngestPage(page, a)
    IN IF LastPage(page) THEN b ELSE LoadLoop(f, off + LIMIT, b)

\* ---- C1 ----
\* C1 (pagination protocol): both fetch loops issue their requests with the
\* offsets 0, L, 2L, ... in that order; while a loop runs it has collected
\* exactly the full pages before its offset; once it has stopped, against a
\* server that served every page of the N records it holds, it has issued
\* exactly N div L + 1 requests and collected the N records in order.
C1_Pagination ==
    /\ \A i \in DOMAIN requests : requests[i] = (i - 1) * LIMIT
    /\ \A i \in DOMAIN follower_requests : follower_requests[i] = (i - 1) * limit
    /\ pc = "get_followers" =>
          /\ followers_offset = Len(follower_requests) * limit
          /\ followers = SubSeq(follower_feed, 1, followers_offset)
    /\ pc # "get_followers" =>
          /\ Len(follower_requests) = (Len(follower_feed) \div limit) + 1
          /\ followers = follower_feed
    /\ pc = "load_loop" =>
          /\ offset = Len(requests) * LIMIT
          /\ notifications = SubSeq(feed, 1, offset)
    /\ (LoadFinished /\ ~malformed) =>
          /\ Len(requests) = (Len(feed) \div LIMIT) + 1
          /\ notifications = feed

\* A run whose feed is an exact multiple of the page size and took three
\* requests, the last one for the empty page, beside a follower list of
\* more than one page.
C1_Witness ==
    /\ LoadFinished /\ ~malformed
    /\ Len(feed) = 2 * LIMIT
    /\ requests = <<0, LIMIT, 2 * LIMIT>>
    /\ Len(follower_requests) >= 2

\* ---- C2 ----
PoolNames == {n.name : n \in NotificationPool}
PoolKeys == {<<n.resource_uuid, n.created_at>> : n \in NotificationPool}
StoredCount(a, k) ==
    IF a \in DOMAIN user_likes /\ k \in DOMAIN user_likes[a]
    THEN user_likes[a][k] ELSE 0
\* The media-bearing liked records fetched so far with actor a and pair k.
SeenCount(a, k) ==
    Cardinality({i \in DOMAIN notifications :
        /\ notifications[i].action = "liked"
        /\ notifications[i].resource_media = MediaUrl
        /\ notifications[i].name = a
        /\ <<notifications[i].resource_uuid, notifications[i].created_at>> = k})

\* C2 (like dedup): at every point of the ingestion, the count stored for
\* actor a under the pair (resource_uuid, created_at) is the number of
\* media-bearing liked records fetched with that actor and pair, and a pair
\* is a key only if such a record was fetched.
C2_LikeDedup ==
    /\ \A a \in PoolNames \cup DOMAIN user_likes :
          \A k \in PoolKeys \cup (IF a \in DOMAIN user_likes
                                  THEN DOMAIN user_likes[a] ELSE {}) :
              StoredCount(a, k) = SeenCount(a, k)
    /\ \A a \in DOMAIN user_likes : \A k \in DOMAIN user_likes[a] :
          user_likes[a][k] >= 1

\* Two identical liked records were ingested: stored count 2, one key.
C2_Witness ==
    /\ LoadFinished
    /\ \E a \in DOMAIN user_likes :
          /\ Cardinality(DOMAIN user_likes[a]) = 1
          /\ \E k \in DOMAIN user_likes[a] : user_likes[a][k] = 2

\* ---- C3 ----
NoMedia(n) == n.resource_media \in {NoKey, ""}
Ignored(n) ==
    \/ n.action \notin {"liked", "commented", "collected"}
    \/ n.action = "liked" /\ NoMedia(n)
\* The records the step appended to notifications.
Fetched == SubSeq(notifications', Len(notifications) + 1, Len(notifications'))

\* C3 (media gating): a step that fetches no media-bearing liked record
\* leaves user_likes and follower_like_counts as they were, and a step that
\* fetches only liked records without media and records of other actions
\* leaves every aggregate as it was.
C3_MediaGating ==
    [][ /\ (\A i \in DOMAIN Fetched :
                Fetched[i].action = "liked" => NoMedia(Fetched[i]))
            => /\ user_likes' = user_likes
               /\ follower_like_counts' = follower_like_counts
        /\ (\A i \in DOMAIN Fetched : Ignored(Fetched[i]))
            => aggregates' = aggregates ]_vars

\* A feed of a liked record without the media key, a liked record with an
\* empty media value and a record of another action has been ingested.
C3_Witness ==
    /\ LoadFinished
    /\ {LikedNoMedia, LikedEmptyMedia, Followed}
           \subseteq {notifications[i] : i \in DOMAIN notifications}
    /\ DOMAIN user_likes = {}
    /\ DOMAIN follower_like_counts = {}

\* ---- C4 ----
\* C4 (follower partition coverage): once load_data has returned, the
\* followers without likes and the followers of the follower-side histogram
\* computed from the aggregates split the follower set in two disjoint
\* parts; and a finished analysis has reported exactly these two parts, the
\* histogram's counts and the followers without likes adding up to the
\* number of distinct followers.
C4_FollowerPartition ==
    /\ LoadFinished =>
          LET no_likes == FollowersNoLikes(FollowerNames,
                              UsersWithLikes(generate_likes_dataframe(user_likes)))
              counted  == DOMAIN FollowerLikeCountsDf(follower_like_counts, FollowerNames)
          IN /\ no_likes \cup counted = FollowerNames
             /\ no_likes \cap counted = {}
    /\ pc = "done" =>
          /\ followers_no_likes \cup DOMAIN follower_like_counts_df = FollowerNames
          /\ followers_no_likes \cap DOMAIN follower_like_counts_df = {}
          /\ SumOver([l \in DOMAIN follower_likes_summary |->
                         follower_likes_summary[l].count],
                     DOMAIN follower_likes_summary)
               + Cardinality(followers_no_likes) = Cardinality(FollowerNames)

\* A finished analysis with a follower on each side.
C4_Witness ==
    /\ pc = "done"
    /\ followers_no_likes # {}
    /\ DOMAIN follower_like_counts_df # {}

\* ---- C5 ----
Permuted(f, p) == [i \in DOMAIN f |-> f[p[i]]]

\* C5 (commutativity of ingestion): the aggregates load_data ends with are
\* those it ends with on every permutation of the feed.
C5_Commutativity ==
    (pc = "main_totals" /\ ~malformed) =>
        \A p \in Permutations(DOMAIN feed) :
            LoadLoop(Permuted(feed, p), 0, FreshAggregates) = CurrentAggregates

\* A feed of more than one page, its records pairwise different, with a like
\* and a comment among them, has been ingested.
C5_Witness ==
    /\ pc = "main_totals" /\ ~malformed
    /\ Len(feed) > LIMIT
    /\ \A i, j \in DOMAIN feed : i # j => feed[i] # feed[j]
    /\ DOMAIN user_likes # {}
    /\ DOMAIN user_comments # {}
\* ---- C6 ----
\* C6 (malformed page, partial-result policy), as claimed: once a response
\* without the "notifications" key has ended the fetch, the run carries a
\* MalformedResponseError.
C6_MalformedReported ==
    (malformed /\ LoadFinished) => error = "MalformedResponseError"

\* What load_data does on such a response: the loop ends as on an end of
\* data, the aggregates and the collected records stay as they were, and no
\* request follows.
C6_MalformedStopsQuietly ==
    [][ /\ (malformed' /\ ~malformed) =>
              /\ aggregates' = aggregates
              /\ notifications' = notifications
              /\ pc' = "main_totals"
              /\ error' = "none"
        /\ malformed => requests' = requests ]_vars

\* ---- C7 ----
\* C7 (zero-follower case), as claimed: an analysis entered with an empty
\* follower set ends in the explicit ZeroFollowerError outcome.
C7_ZeroFollowerReported ==
    (pc \in {"done", "crashed"} /\ "followers_no_likes" \in shown
        /\ FollowerNames = {})
    => error = "ZeroFollowerError"

\* ---- C8 ----
\* C8 (non-follower distribution denominator), as claimed: the percentage of
\* every bucket of the non-follower histogram is the bucket's count over the
\* number of actors with likes that are not followers, a positive number.
C8_NonFollowerDenominator ==
    pc = "done" =>
        LET non_followers == Cardinality(DOMAIN user_likes \ FollowerNames)
        IN \A l \in DOMAIN non_follower_likes_summary :
              LET row == non_follower_likes_summary[l]
              IN /\ row.percentage[2] > 0
                 /\ row.percentage[1] * non_followers
                      = row.count * 100 * row.percentage[2]

\* ---- C9 ----
\* C9 (statistics errors do not cascade), as claimed: a run that ends with no
\* comment but with likes has reported InsufficientDataError and has still
\* produced the like percentiles and the top-fraction like reports.
C9_CommentErrorDoesNotCascade ==
    (pc \in {"done", "crashed"} /\ DOMAIN user_comments = {}
        /\ DOMAIN user_likes # {})
    => /\ error = "InsufficientDataError"
       /\ {"likes_percentiles", "top_users"} \subseteq shown

\* ---- C10 ----
\* C10 (top-fraction share is bounded by the total), as claimed: for every
\* fraction, the like totals of the selected top slice sum to at most the
\* total they are divided by.
C10_TopShareBounded ==
    \A i \in DOMAIN top_users_stats :
        top_users_stats[i].likes <= top_users_stats[i].total
====
